---- MODULE Spec2Model ----
(***************************************************************************)
(* Model of src/src/functions/zulang_tool_rooter.js: the Zuglang numeral   *)
(* conversion core (zuglangToDecimal, decimalToZuglang), the arithmetic    *)
(* wrapper calculateZuglang and the HTTP handlers built on them.           *)
(*                                                                         *)
(* A JavaScript string is modelled as the sequence of its characters, each *)
(* character a one-character TLA+ string: "BC" is <<"B", "C">> and the     *)
(* empty string is <<>>.  A JavaScript number is an integer; all values    *)
(* the model reaches are far below 2^53, where number arithmetic is exact. *)
(***************************************************************************)
EXTENDS Integers, Sequences, FiniteSets, TLC

(***************************************************************************)
(* Bounds of the model.                                                    *)
(***************************************************************************)
\* longest numeral-string handed to the decoder directly
MaxLen == 3
\* integers handed to the encoder directly range over -MaxN..MaxN
MaxN == 10000
\* longest operand built from CalcChars for calculateZuglang and the endpoints
MaxOperandLen == 2
\* longest expression built from ParseChars for decimal_to_zuglang_number
MaxParamLen == 3
\* number of invocations in progress at the same time
NumCalls == 2

(***************************************************************************)
(* Outcomes of a call: a returned value or a thrown Error with a message.  *)
(***************************************************************************)
\* a returned value carries its typeof, so that values of different types are
\* never compared with each other
ReturnedNumber(v) == [kind |-> "return", type |-> "number", value |-> v]
ReturnedString(v) == [kind |-> "return", type |-> "string", value |-> v]
ReturnedObject(v) == [kind |-> "return", type |-> "object", value |-> v]
Thrown(m) == [kind |-> "throw", message |-> m]
\* an async handler that throws: its promise is rejected, no response object;
\* m is error.message, as in Thrown
Rejected(m) == [kind |-> "reject", message |-> m]
NoOutcome == [kind |-> "none"]

(***************************************************************************)
(* String.prototype.toUpperCase on the characters the model uses.          *)
(***************************************************************************)
LowerCaseLetters == <<"a","b","c","d","e","f","g","h","i","j","k","l","m",
                      "n","o","p","q","r","s","t","u","v","w","x","y","z">>
UpperCaseLetters == <<"A","B","C","D","E","F","G","H","I","J","K","L","M",
                      "N","O","P","Q","R","S","T","U","V","W","X","Y","Z">>

CharToUpperCase(c) ==
  IF \E i \in 1..Len(LowerCaseLetters) : LowerCaseLetters[i] = c
  THEN UpperCaseLetters[CHOOSE i \in 1..Len(LowerCaseLetters) : LowerCaseLetters[i] = c]
  ELSE c

\* zuglangNum.toUpperCase().split('')
toUpperCase(s) == [i \in 1..Len(s) |-> CharToUpperCase(s[i])]

(***************************************************************************)
(* zuglangToDecimal, lines 292-310.                                        *)
(***************************************************************************)
letterMap ==
  ("A" :> 0) @@ ("B" :> 1) @@ ("C" :> 2) @@ ("D" :> 3) @@ ("E" :> 4) @@
  ("F" :> 5) @@ ("G" :> 6) @@ ("H" :> 7) @@ ("I" :> 8) @@ ("J" :> 9)

\* `Invalid Zuglang digit: ${digitChar}. Must be A-J.`
InvalidDigitMessage(digitChar) ==
  <<"I","n","v","a","l","i","d"," ","Z","u","g","l","a","n","g"," ","d","i","g","i","t",":"," ">>
  \o <<digitChar>>
  \o <<"."," ","M","u","s","t"," ","b","e"," ","A","-","J",".">>

\* a decoder that numbers the letters from 1 (A=1 .. J=10)
RECURSIVE DecodeLoop_OneBased(_, _, _)
DecodeLoop_OneBased(digits, i, result) ==
  IF i > Len(digits) THEN ReturnedNumber(result)
  ELSE IF digits[i] \notin DOMAIN letterMap
       THEN Thrown(InvalidDigitMessage(digits[i]))
       ELSE DecodeLoop_OneBased(digits, i + 1, result * 10 + letterMap[digits[i]] + 1)

\* a decoder that skips a character outside the table instead of throwing
RECURSIVE DecodeLoop_SkipsInvalid(_, _, _)
DecodeLoop_SkipsInvalid(digits, i, result) ==
  IF i > Len(digits) THEN ReturnedNumber(result)
  ELSE IF digits[i] \notin DOMAIN letterMap
       THEN DecodeLoop_SkipsInvalid(digits, i + 1, result)
       ELSE DecodeLoop_SkipsInvalid(digits, i + 1, result * 10 + letterMap[digits[i]])

\* the for loop over digits, entered at index i with the accumulator result
RECURSIVE DecodeLoop(_, _, _)
DecodeLoop(digits, i, result) ==
  IF i > Len(digits) THEN ReturnedNumber(result)
  ELSE IF digits[i] \notin DOMAIN letterMap
       THEN Thrown(InvalidDigitMessage(digits[i]))
       ELSE DecodeLoop(digits, i + 1, result * 10 + letterMap[digits[i]])

zuglangToDecimal(zuglangNum) == DecodeLoop(toUpperCase(zuglangNum), 1, 0)

(***************************************************************************)
(* decimalToZuglang, lines 317-331.                                        *)
(***************************************************************************)
digitMap == <<"A","B","C","D","E","F","G","H","I","J">>

\* Math.abs
Abs(n) == IF n < 0 THEN -n ELSE n

\* an encoder loop that appends each extracted digit instead of prepending it
RECURSIVE EncodeLoop_Appends(_, _)
EncodeLoop_Appends(num, result) ==
  IF num > 0
  THEN EncodeLoop_Appends(num \div 10, result \o <<digitMap[(num % 10) + 1]>>)
  ELSE result

\* the while loop: result = digitMap[num % 10] + result; num = floor(num / 10)
RECURSIVE EncodeLoop(_, _)
EncodeLoop(num, result) ==
  IF num > 0
  THEN EncodeLoop(num \div 10, <<digitMap[(num % 10) + 1]>> \o result)
  ELSE result

\* an encoder without the special case for zero
decimalToZuglang_NoZeroCase(decimalNum) ==
  LET result == EncodeLoop(Abs(decimalNum), <<>>)
  IN IF decimalNum < 0 THEN <<"-">> \o result ELSE result

\* an encoder that forgets the sign of a negative number
decimalToZuglang_DropsSign(decimalNum) ==
  IF decimalNum = 0 THEN <<"A">>
  ELSE EncodeLoop(Abs(decimalNum), <<>>)

decimalToZuglang(decimalNum) ==
  IF decimalNum = 0 THEN <<"A">>
  ELSE LET result == EncodeLoop(Abs(decimalNum), <<>>)
       IN IF decimalNum < 0 THEN <<"-">> \o result ELSE result

(***************************************************************************)
(* Number to string conversion inside a template literal (line 395): the   *)
(* decimal digits of an integer, with a leading "-" when negative.         *)
(***************************************************************************)
DecimalDigits == <<"0","1","2","3","4","5","6","7","8","9">>

RECURSIVE NatToString(_)
NatToString(n) ==
  IF n < 10 THEN <<DecimalDigits[n + 1]>>
  ELSE NatToString(n \div 10) \o <<DecimalDigits[(n % 10) + 1]>>

NumberToString(n) == IF n < 0 THEN <<"-">> \o NatToString(-n) ELSE NatToString(n)

(***************************************************************************)
(* calculateZuglang, lines 365-400.                                        *)
(***************************************************************************)
ErrorDivisionByZero ==
  <<"E","r","r","o","r",":"," ","D","i","v","i","s","i","o","n"," ","b","y"," ","z","e","r","o">>

\* `Error: Invalid operator ${operator}`
ErrorInvalidOperator(operator) ==
  <<"E","r","r","o","r",":"," ","I","n","v","a","l","i","d"," ","o","p","e","r","a","t","o","r"," ">>
  \o operator

\* a catch clause that returns the bare message
CatchError_NoPrefix(message) == message

\* the catch clause: `Error: ${error.message}`
CatchError(message) == <<"E","r","r","o","r",":"," ">> \o message

\* `${expression1} ${operator} ${expression2} = ${zuglangResult} (${num1} ${operator} ${num2} = ${result} in decimal)`
FormatSummary(expression1, operator, expression2, zuglangResult, num1, num2, result) ==
  expression1 \o <<" ">> \o operator \o <<" ">> \o expression2
  \o <<" ","="," ">> \o zuglangResult
  \o <<" ","(">> \o NumberToString(num1) \o <<" ">> \o operator \o <<" ">>
  \o NumberToString(num2) \o <<" ","="," ">> \o NumberToString(result)
  \o <<" ","i","n"," ","d","e","c","i","m","a","l",")">>

\* a switch whose subtraction drops the sign of the difference
SwitchOperator_AbsDifference(expression1, expression2, operator, num1, num2) ==
  LET Finish(result) ==
        FormatSummary(expression1, operator, expression2,
                      decimalToZuglang(result), num1, num2, result)
  IN CASE operator = <<"+">> -> Finish(num1 + num2)
       [] operator = <<"-">> -> Finish(Abs(num1 - num2))
       [] operator = <<"*">> -> Finish(num1 * num2)
       [] operator = <<"/">> -> IF num2 = 0 THEN ErrorDivisionByZero
                                ELSE Finish(num1 \div num2)
       [] OTHER -> ErrorInvalidOperator(operator)

\* a switch without the test for a zero divisor, the quotient coerced to 0
SwitchOperator_NoZeroCheck(expression1, expression2, operator, num1, num2) ==
  LET Finish(result) ==
        FormatSummary(expression1, operator, expression2,
                      decimalToZuglang(result), num1, num2, result)
  IN CASE operator = <<"+">> -> Finish(num1 + num2)
       [] operator = <<"-">> -> Finish(num1 - num2)
       [] operator = <<"*">> -> Finish(num1 * num2)
       [] operator = <<"/">> -> IF num2 = 0 THEN Finish(0)
                                ELSE Finish(num1 \div num2)
       [] OTHER -> ErrorInvalidOperator(operator)

\* a switch whose default case adds
SwitchOperator_DefaultAdds(expression1, expression2, operator, num1, num2) ==
  LET Finish(result) ==
        FormatSummary(expression1, operator, expression2,
                      decimalToZuglang(result), num1, num2, result)
  IN CASE operator = <<"-">> -> Finish(num1 - num2)
       [] operator = <<"*">> -> Finish(num1 * num2)
       [] operator = <<"/">> -> IF num2 = 0 THEN ErrorDivisionByZero
                                ELSE Finish(num1 \div num2)
       [] OTHER -> Finish(num1 + num2)

\* the switch over the operator, once both operands are decoded, followed by
\* the encoding of the result and the formatting of the summary
SwitchOperator(expression1, expression2, operator, num1, num2) ==
  LET Finish(result) ==
        FormatSummary(expression1, operator, expression2,
                      decimalToZuglang(result), num1, num2, result)
  IN CASE operator = <<"+">> -> Finish(num1 + num2)
       [] operator = <<"-">> -> Finish(num1 - num2)
       [] operator = <<"*">> -> Finish(num1 * num2)
       [] operator = <<"/">> -> IF num2 = 0 THEN ErrorDivisionByZero
                                ELSE Finish(num1 \div num2)
       [] OTHER -> ErrorInvalidOperator(operator)

\* the whole function: always returns a string, never throws
calculateZuglang(expression1, expression2, operator) ==
  LET d1 == zuglangToDecimal(expression1)
  IN IF d1.kind = "throw" THEN CatchError(d1.message)
     ELSE LET d2 == zuglangToDecimal(expression2)
          IN IF d2.kind = "throw" THEN CatchError(d2.message)
             ELSE SwitchOperator(expression1, expression2, operator, d1.value, d2.value)

(***************************************************************************)
(* The HTTP layer.  request.query is a function from the names of the      *)
(* parameters that are present to their values; query.get(name) is null    *)
(* for a name that is absent.  A response is its status and the object     *)
(* handed to JSON.stringify as the body; the Content-Type header, the same *)
(* on every path, is left out.                                             *)
(***************************************************************************)
Null == [isNull |-> TRUE, str |-> <<>>]
QueryGet(query, name) ==
  IF name \in DOMAIN query THEN [isNull |-> FALSE, str |-> query[name]] ELSE Null

\* !v for a value that is null or a string
Falsy(v) == v.isNull \/ v.str = <<>>

\* String.prototype.trim on the white space the model uses
RECURSIVE TrimStart(_)
TrimStart(s) == IF s # <<>> /\ Head(s) = " " THEN TrimStart(Tail(s)) ELSE s
RECURSIVE TrimEnd(_)
TrimEnd(s) ==
  IF s # <<>> /\ s[Len(s)] = " " THEN TrimEnd(SubSeq(s, 1, Len(s) - 1)) ELSE s
Trim(s) == TrimEnd(TrimStart(s))

\* String.prototype.startsWith
StartsWith(s, prefix) ==
  Len(s) >= Len(prefix) /\ SubSeq(s, 1, Len(prefix)) = prefix

ValidOperators == {<<"+">>, <<"-">>, <<"*">>, <<"/">>}

\* a handler that answers 200 with whatever calculateZuglang returned
zuglang_calculator_NoErrorCheck(query) ==
  LET expression1 == QueryGet(query, "expression1")
      expression2 == QueryGet(query, "expression2")
      rawOperator == QueryGet(query, "operator")
      trimmed == Trim(IF Falsy(rawOperator) THEN <<>> ELSE rawOperator.str)
      operator == IF trimmed = <<"%","2","B">> THEN <<"+">> ELSE trimmed
  IN IF Falsy(expression1) \/ Falsy(expression2) \/ trimmed = <<>>
     THEN [status |-> 400,
           body |-> [error |-> <<"M","i","s","s","i","n","g"," ","r","e","q","u","i","r","e","d"," ","p","a","r","a","m","e","t","e","r","s",":"," ","e","x","p","r","e","s","s","i","o","n","1",","," ","e","x","p","r","e","s","s","i","o","n","2",","," ","o","p","e","r","a","t","o","r">>,
                     usage |-> <<"C","a","l","l"," ","w","i","t","h"," ","?","e","x","p","r","e","s","s","i","o","n","1","=","B","C","&","e","x","p","r","e","s","s","i","o","n","2","=","C","F","&","o","p","e","r","a","t","o","r","=","%","2","B">>]]
     ELSE IF operator \notin ValidOperators
     THEN [status |-> 400,
           body |-> [error |-> <<"I","n","v","a","l","i","d"," ","o","p","e","r","a","t","o","r","."," ","M","u","s","t"," ","b","e"," ","o","n","e"," ","o","f",":"," ","+",","," ","-",","," ","*",","," ","/">>]]
     ELSE LET result == calculateZuglang(expression1.str, expression2.str, operator)
          IN      [status |-> 200,
                   body |-> [tool |-> <<"z","u","g","l","a","n","g","_","c","a","l","c","u","l","a","t","o","r">>,
                             expression1 |-> expression1.str,
                             expression2 |-> expression2.str,
                             operator |-> operator,
                             result |-> result]]

\* the zuglang_calculator handler, lines 550-608.  Nothing in its try block
\* throws for string parameters (calculateZuglang catches its own errors), so
\* the catch clause of lines 599-606 is not reached.
zuglang_calculator(query) ==
  LET expression1 == QueryGet(query, "expression1")
      expression2 == QueryGet(query, "expression2")
      rawOperator == QueryGet(query, "operator")
      trimmed == Trim(IF Falsy(rawOperator) THEN <<>> ELSE rawOperator.str)
      operator == IF trimmed = <<"%","2","B">> THEN <<"+">> ELSE trimmed
  IN IF Falsy(expression1) \/ Falsy(expression2) \/ trimmed = <<>>
     THEN [status |-> 400,
           body |-> [error |-> <<"M","i","s","s","i","n","g"," ","r","e","q","u","i","r","e","d"," ","p","a","r","a","m","e","t","e","r","s",":"," ","e","x","p","r","e","s","s","i","o","n","1",","," ","e","x","p","r","e","s","s","i","o","n","2",","," ","o","p","e","r","a","t","o","r">>,
                     usage |-> <<"C","a","l","l"," ","w","i","t","h"," ","?","e","x","p","r","e","s","s","i","o","n","1","=","B","C","&","e","x","p","r","e","s","s","i","o","n","2","=","C","F","&","o","p","e","r","a","t","o","r","=","%","2","B">>]]
     ELSE IF operator \notin ValidOperators
     THEN [status |-> 400,
           body |-> [error |-> <<"I","n","v","a","l","i","d"," ","o","p","e","r","a","t","o","r","."," ","M","u","s","t"," ","b","e"," ","o","n","e"," ","o","f",":"," ","+",","," ","-",","," ","*",","," ","/">>]]
     ELSE LET result == calculateZuglang(expression1.str, expression2.str, operator)
          IN IF StartsWith(result, <<"E","r","r","o","r",":">>)
             THEN [status |-> 400, body |-> [error |-> result]]
             ELSE [status |-> 200,
                   body |-> [tool |-> <<"z","u","g","l","a","n","g","_","c","a","l","c","u","l","a","t","o","r">>,
                             expression1 |-> expression1.str,
                             expression2 |-> expression2.str,
                             operator |-> operator,
                             result |-> result]]

\* the context the host passes to a handler.  The handlers use only
\* context.log.error, in their catch clauses: it is a function on a host
\* whose context.log carries the method error, and undefined on a context of
\* @azure/functions v4, where log and error are methods of the context.
Contexts == {[logError |-> "function"], [logError |-> "undefined"]}

\* error.message of the TypeError of calling context.log.error when it is
\* undefined
LogErrorIsNotAFunction ==
  <<"c","o","n","t","e","x","t",".","l","o","g",".","e","r","r","o","r"," ","i","s"," ","n","o","t"," ","a"," ","f","u","n","c","t","i","o","n">>

\* the zuglang_number_to_decimal handler, lines 614-652
zuglang_number_to_decimal(query, context) ==
  LET expression == QueryGet(query, "expression")
  IN IF Falsy(expression)
     THEN ReturnedObject(
          [status |-> 400,
           body |-> [error |-> <<"M","i","s","s","i","n","g"," ","r","e","q","u","i","r","e","d"," ","p","a","r","a","m","e","t","e","r",":"," ","e","x","p","r","e","s","s","i","o","n">>,
                     usage |-> <<"C","a","l","l"," ","w","i","t","h"," ","?","e","x","p","r","e","s","s","i","o","n","=","y","o","u","r","_","z","u","g","l","a","n","g","_","n","u","m","b","e","r">>]])
     ELSE LET decimalResult == zuglangToDecimal(expression.str)
          IN IF decimalResult.kind = "throw"
             THEN IF context.logError # "function"
                  THEN Rejected(LogErrorIsNotAFunction)
                  ELSE ReturnedObject(
                       [status |-> 400,
                        body |-> [error |-> <<"I","n","v","a","l","i","d"," ","i","n","p","u","t"," ","f","o","r"," ","Z","u","g","l","a","n","g"," ","c","o","n","v","e","r","s","i","o","n",":"," ">>
                                            \o decimalResult.message]])
             ELSE ReturnedObject(
                  [status |-> 200,
                   body |-> [tool |-> <<"z","u","g","l","a","n","g","_","n","u","m","b","e","r","_","t","o","_","d","e","c","i","m","a","l">>,
                             zuglang_number |-> expression.str,
                             decimal_result |-> decimalResult.value]])

\* parseInt(string, 10): leading white space skipped, an optional sign, then
\* the longest run of decimal digits; NaN when that run is empty.  -0 is 0.
NaN == [isNaN |-> TRUE, value |-> 0]

IsDecimalDigit(c) == \E d \in 1..10 : DecimalDigits[d] = c

RECURSIVE LeadingDigits(_)
LeadingDigits(s) ==
  IF s # <<>> /\ IsDecimalDigit(Head(s))
  THEN <<Head(s)>> \o LeadingDigits(Tail(s))
  ELSE <<>>

RECURSIVE DigitsToNumber(_, _)
DigitsToNumber(digits, acc) ==
  IF digits = <<>> THEN acc
  ELSE DigitsToNumber(Tail(digits),
         acc * 10 + (CHOOSE d \in 0..9 : DecimalDigits[d + 1] = Head(digits)))

parseInt(string) ==
  LET S == TrimStart(string)
      signed == S # <<>> /\ Head(S) \in {"+", "-"}
      sign == IF S # <<>> /\ Head(S) = "-" THEN -1 ELSE 1
      Z == LeadingDigits(IF signed THEN Tail(S) ELSE S)
  IN IF Z = <<>> THEN NaN
     ELSE [isNaN |-> FALSE, value |-> sign * DigitsToNumber(Z, 0)]

\* the decimal_to_zuglang_number handler, lines 658-707; Number.isInteger
\* holds of every number parseInt returns here.  parseInt and
\* decimalToZuglang never throw, so the catch clause of lines 698-705 is not
\* reached.
decimal_to_zuglang_number(query) ==
  LET expression == QueryGet(query, "expression")
  IN IF Falsy(expression)
     THEN [status |-> 400,
           body |-> [error |-> <<"M","i","s","s","i","n","g"," ","r","e","q","u","i","r","e","d"," ","p","a","r","a","m","e","t","e","r",":"," ","e","x","p","r","e","s","s","i","o","n">>,
                     usage |-> <<"C","a","l","l"," ","w","i","t","h"," ","?","e","x","p","r","e","s","s","i","o","n","=","y","o","u","r","_","d","e","c","i","m","a","l","_","n","u","m","b","e","r">>]]
     ELSE LET decimalInput == parseInt(expression.str)
          IN IF decimalInput.isNaN
             THEN [status |-> 400,
                   body |-> [error |-> <<"I","n","v","a","l","i","d"," ","i","n","p","u","t",":"," ","e","x","p","r","e","s","s","i","o","n"," ","m","u","s","t"," ","b","e"," ","a"," ","v","a","l","i","d"," ","i","n","t","e","g","e","r",".">>]]
             ELSE [status |-> 200,
                   body |-> [tool |-> <<"d","e","c","i","m","a","l","_","t","o","_","z","u","g","l","a","n","g","_","n","u","m","b","e","r">>,
                             decimal_number |-> decimalInput.value,
                             zuglang_result |-> decimalToZuglang(decimalInput.value)]]

(***************************************************************************)
(* Inputs of the model.                                                    *)
(***************************************************************************)
StringsUpTo(chars, n) == UNION {[1..k -> chars] : k \in 0..n}

\* every digit letter in both cases, and three characters outside the table
DecodeChars ==
  {"A","B","C","D","E","F","G","H","I","J",
   "a","b","c","d","e","f","g","h","i","j", "K", "k", "-"}
DecodeInputs == StringsUpTo(DecodeChars, MaxLen)

EncodeInputs == (-MaxN)..MaxN

\* operands: the zero digit, a non-zero digit, a lower-case digit and a
\* character outside the table, plus the operands of the documented examples
CalcChars == {"A", "B", "j", "K"}
ExampleOperands == {<<"B","C">>, <<"C","F">>, <<"a">>, <<"F">>}
Operands == StringsUpTo(CalcChars, MaxOperandLen) \cup ExampleOperands

Operators ==
  {<<"+">>, <<"-">>, <<"*">>, <<"/">>, <<"%">>, <<>>, <<"+","+">>,
   <<" ","+">>, <<"%","2","B">>}
RawOperators == Operators \cup {<<" ","+"," ">>, <<" ">>, <<"/"," ">>}

\* a query: each parameter absent or present with one of the values
Queries(names, values) ==
  UNION {[present -> values] : present \in SUBSET names}
CalculatorQueries ==
  {q1 @@ q2 :
     q1 \in Queries({"expression1", "expression2"}, Operands),
     q2 \in Queries({"operator"}, RawOperators)}
NumberQueries == Queries({"expression"}, Operands)

\* expressions of the decimal_to_zuglang_number endpoint: digits, signs, a
\* letter, a point and a space, plus the documented and the malformed examples
ParseChars == {"0", "1", "2", "7", "-", "+", "a", ".", " "}
ExampleExpressions ==
  {<<"9","8","0">>, <<"1","2","a","b","c">>, <<"3",".","7">>, <<"a","b","c">>,
   <<"-","5">>, <<"3","7">>}
DecimalQueries ==
  Queries({"expression"}, StringsUpTo(ParseChars, MaxParamLen) \cup ExampleExpressions)

(***************************************************************************)
(* The state machine: one invocation at a time of an entry point of the    *)
(* module.  calculateZuglang is followed statement by statement.           *)
(***************************************************************************)
VARIABLES
  pc,     \* "idle", a position inside calculateZuglang, or "done"
  call,   \* the entry point invoked and its arguments
  num1,   \* const num1 of calculateZuglang
  num2,   \* const num2 of calculateZuglang
  ret     \* the outcome of the invocation

vars == <<pc, call, num1, num2, ret>>

Unassigned == [assigned |-> FALSE, value |-> 0]
Assigned(v) == [assigned |-> TRUE, value |-> v]

Init ==
  /\ pc = "idle"
  /\ call = [fn |-> "none"]
  /\ num1 = Unassigned
  /\ num2 = Unassigned
  /\ ret = NoOutcome

Ready == pc = "idle"

\* a direct call of zuglangToDecimal
CallZuglangToDecimal ==
  /\ Ready
  /\ \E s \in DecodeInputs :
    /\ call' = [fn |-> "zuglangToDecimal", zuglangNum |-> s]
    /\ ret' = zuglangToDecimal(s)
    /\ pc' = "done"
    /\ num1' = Unassigned /\ num2' = Unassigned

\* a direct call of decimalToZuglang
CallDecimalToZuglang ==
  /\ Ready
  /\ \E n \in EncodeInputs :
    /\ call' = [fn |-> "decimalToZuglang", decimalNum |-> n]
    /\ ret' = ReturnedString(decimalToZuglang(n))
    /\ pc' = "done"
    /\ num1' = Unassigned /\ num2' = Unassigned

\* calculateZuglang is entered
CallCalculateZuglang ==
  /\ Ready
  /\ \E e1 \in Operands, e2 \in Operands, op \in Operators :
    /\ call' = [fn |-> "calculateZuglang", expression1 |-> e1,
                expression2 |-> e2, operator |-> op]
    /\ ret' = NoOutcome
    /\ pc' = "decode1"
    /\ num1' = Unassigned /\ num2' = Unassigned

\* a first step that examines the operator before decoding any operand
CalcDecode1_OperatorFirst ==
  /\ pc = "decode1"
  /\ IF call.operator \notin ValidOperators
     THEN /\ ret' = ReturnedString(ErrorInvalidOperator(call.operator))
          /\ pc' = "done"
          /\ num1' = num1
     ELSE LET d == zuglangToDecimal(call.expression1)
          IN IF d.kind = "throw"
             THEN /\ ret' = ReturnedString(CatchError(d.message))
                  /\ pc' = "done"
                  /\ num1' = num1
             ELSE /\ num1' = Assigned(d.value)
                  /\ pc' = "decode2"
                  /\ ret' = ret
  /\ UNCHANGED <<call, num2>>

\* line 368: const num1 = zuglangToDecimal(expression1), or the catch clause
CalcDecode1 ==
  /\ pc = "decode1"
  /\ LET d == zuglangToDecimal(call.expression1)
     IN IF d.kind = "throw"
        THEN /\ ret' = ReturnedString(CatchError(d.message))
             /\ pc' = "done"
             /\ num1' = num1
        ELSE /\ num1' = Assigned(d.value)
             /\ pc' = "decode2"
             /\ ret' = ret
  /\ UNCHANGED <<call, num2>>

\* line 369: const num2 = zuglangToDecimal(expression2), or the catch clause
CalcDecode2 ==
  /\ pc = "decode2"
  /\ LET d == zuglangToDecimal(call.expression2)
     IN IF d.kind = "throw"
        THEN /\ ret' = ReturnedString(CatchError(d.message))
             /\ pc' = "done"
             /\ num2' = num2
        ELSE /\ num2' = Assigned(d.value)
             /\ pc' = "switch"
             /\ ret' = ret
  /\ UNCHANGED <<call, num1>>

\* lines 372-395: the switch, the encoding and the summary
CalcSwitch ==
  /\ pc = "switch"
  /\ ret' = ReturnedString(SwitchOperator(call.expression1, call.expression2,
                                          call.operator, num1.value, num2.value))
  /\ pc' = "done"
  /\ UNCHANGED <<call, num1, num2>>

\* a request to the zuglang_calculator endpoint
RequestCalculator ==
  /\ Ready
  /\ \E q \in CalculatorQueries :
    /\ call' = [fn |-> "zuglang_calculator", query |-> q]
    /\ ret' = ReturnedObject(zuglang_calculator(q))
    /\ pc' = "done"
    /\ num1' = Unassigned /\ num2' = Unassigned

\* a request to the zuglang_number_to_decimal endpoint
RequestNumberToDecimal ==
  /\ Ready
  /\ \E q \in NumberQueries, context \in Contexts :
    /\ call' = [fn |-> "zuglang_number_to_decimal", query |-> q]
    /\ ret' = zuglang_number_to_decimal(q, context)
    /\ pc' = "done"
    /\ num1' = Unassigned /\ num2' = Unassigned

\* a request to the decimal_to_zuglang_number endpoint
RequestDecimalToZuglang ==
  /\ Ready
  /\ \E q \in DecimalQueries :
    /\ call' = [fn |-> "decimal_to_zuglang_number", query |-> q]
    /\ ret' = ReturnedObject(decimal_to_zuglang_number(q))
    /\ pc' = "done"
    /\ num1' = Unassigned /\ num2' = Unassigned

\* the invocation is over: nothing of it is kept
Finish ==
  /\ pc = "done"
  /\ pc' = "idle"
  /\ call' = [fn |-> "none"]
  /\ num1' = Unassigned
  /\ num2' = Unassigned
  /\ ret' = NoOutcome

Next ==
  \/ CallZuglangToDecimal
  \/ CallDecimalToZuglang
  \/ CallCalculateZuglang
  \/ CalcDecode1
  \/ CalcDecode2
  \/ CalcSwitch
  \/ RequestCalculator
  \/ RequestNumberToDecimal
  \/ RequestDecimalToZuglang
  \/ Finish

Spec == Init /\ [][Next]_vars

\* the statement-by-statement run of calculateZuglang ends with the value of
\* the function as the handlers use it
StepsAgreeWithFunction ==
  (call.fn = "calculateZuglang" /\ pc = "done") =>
    ret = ReturnedString(calculateZuglang(call.expression1, call.expression2,
                                          call.operator))

(***************************************************************************)
(* Concurrent invocations.  NumCalls callers invoke zuglangToDecimal,      *)
(* decimalToZuglang and calculateZuglang, the statements of different      *)
(* invocations interleaved in every order.  Here pc, call, num1, num2 and  *)
(* ret hold one value for each caller.  (The JavaScript run time executes  *)
(* each of these synchronous calls to completion, which is one of the      *)
(* interleavings.)                                                         *)
(***************************************************************************)
Procs == 1..NumCalls

ConcStrings == {<<"B","C">>, <<"j","K">>}
ConcIntegers == {-5, 37}
ConcOperands == {<<"C","F">>, <<"j">>, <<"K">>}
ConcOperators == {<<"-">>, <<"/">>}

\* one storage for every invocation, as if num1 and num2 were module-level
Frame_Shared(p) == 1

\* num1 and num2 are declared inside calculateZuglang: every invocation has
\* its own
Frame(p) == p

InitConc ==
  /\ pc = [p \in Procs |-> "idle"]
  /\ call = [p \in Procs |-> [fn |-> "none"]]
  /\ num1 = [p \in Procs |-> Unassigned]
  /\ num2 = [p \in Procs |-> Unassigned]
  /\ ret = [p \in Procs |-> NoOutcome]

ConcZuglangToDecimal(p) ==
  /\ pc[p] = "idle"
  /\ \E s \in ConcStrings :
       /\ call' = [call EXCEPT ![p] = [fn |-> "zuglangToDecimal", zuglangNum |-> s]]
       /\ ret' = [ret EXCEPT ![p] = zuglangToDecimal(s)]
  /\ pc' = [pc EXCEPT ![p] = "done"]
  /\ UNCHANGED <<num1, num2>>

ConcDecimalToZuglang(p) ==
  /\ pc[p] = "idle"
  /\ \E n \in ConcIntegers :
       /\ call' = [call EXCEPT ![p] = [fn |-> "decimalToZuglang", decimalNum |-> n]]
       /\ ret' = [ret EXCEPT ![p] = ReturnedString(decimalToZuglang(n))]
  /\ pc' = [pc EXCEPT ![p] = "done"]
  /\ UNCHANGED <<num1, num2>>

ConcCalculateZuglang(p) ==
  /\ pc[p] = "idle"
  /\ \E e1 \in ConcOperands, e2 \in ConcOperands, op \in ConcOperators :
       call' = [call EXCEPT ![p] = [fn |-> "calculateZuglang", expression1 |-> e1,
                                    expression2 |-> e2, operator |-> op]]
  /\ pc' = [pc EXCEPT ![p] = "decode1"]
  /\ num1' = [num1 EXCEPT ![Frame(p)] = Unassigned]
  /\ num2' = [num2 EXCEPT ![Frame(p)] = Unassigned]
  /\ UNCHANGED ret

ConcDecode1(p) ==
  /\ pc[p] = "decode1"
  /\ LET d == zuglangToDecimal(call[p].expression1)
     IN IF d.kind = "throw"
        THEN /\ ret' = [ret EXCEPT ![p] = ReturnedString(CatchError(d.message))]
             /\ pc' = [pc EXCEPT ![p] = "done"]
             /\ num1' = num1
        ELSE /\ num1' = [num1 EXCEPT ![Frame(p)] = Assigned(d.value)]
             /\ pc' = [pc EXCEPT ![p] = "decode2"]
             /\ ret' = ret
  /\ UNCHANGED <<call, num2>>

ConcDecode2(p) ==
  /\ pc[p] = "decode2"
  /\ LET d == zuglangToDecimal(call[p].expression2)
     IN IF d.kind = "throw"
        THEN /\ ret' = [ret EXCEPT ![p] = ReturnedString(CatchError(d.message))]
             /\ pc' = [pc EXCEPT ![p] = "done"]
             /\ num2' = num2
        ELSE /\ num2' = [num2 EXCEPT ![Frame(p)] = Assigned(d.value)]
             /\ pc' = [pc EXCEPT ![p] = "switch"]
             /\ ret' = ret
  /\ UNCHANGED <<call, num1>>

ConcSwitch(p) ==
  /\ pc[p] = "switch"
  /\ ret' = [ret EXCEPT ![p] =
               ReturnedString(SwitchOperator(call[p].expression1, call[p].expression2,
                                             call[p].operator,
                                             num1[Frame(p)].value, num2[Frame(p)].value))]
  /\ pc' = [pc EXCEPT ![p] = "done"]
  /\ UNCHANGED <<call, num1, num2>>

\* the invocation of p is over and its storage is gone
ConcFinish(p) ==
  /\ pc[p] = "done"
  /\ pc' = [pc EXCEPT ![p] = "idle"]
  /\ call' = [call EXCEPT ![p] = [fn |-> "none"]]
  /\ ret' = [ret EXCEPT ![p] = NoOutcome]
  /\ IF call[p].fn = "calculateZuglang"
     THEN /\ num1' = [num1 EXCEPT ![Frame(p)] = Unassigned]
          /\ num2' = [num2 EXCEPT ![Frame(p)] = Unassigned]
     ELSE UNCHANGED <<num1, num2>>

NextConc ==
  \E p \in Procs :
    \/ ConcZuglangToDecimal(p)
    \/ ConcDecimalToZuglang(p)
    \/ ConcCalculateZuglang(p)
    \/ ConcDecode1(p)
    \/ ConcDecode2(p)
    \/ ConcSwitch(p)
    \/ ConcFinish(p)

SpecConc == InitConc /\ [][NextConc]_vars

(***************************************************************************)
(* Vocabulary of the properties, written without the operators above: the  *)
(* digit letters in both cases, the positional value of a numeral-string   *)
(* and its canonical form.                                                 *)
(***************************************************************************)
UpperDigits == <<"A","B","C","D","E","F","G","H","I","J">>
LowerDigits == <<"a","b","c","d","e","f","g","h","i","j">>

IsDigitLetter(c) == \E d \in 1..10 : UpperDigits[d] = c \/ LowerDigits[d] = c
DigitOf(c) == (CHOOSE d \in 1..10 : UpperDigits[d] = c \/ LowerDigits[d] = c) - 1
\* the upper-case form of a character: the digit letters and "k" have one
UpperOf(c) == IF \E d \in 1..10 : LowerDigits[d] = c
              THEN UpperDigits[CHOOSE d \in 1..10 : LowerDigits[d] = c]
              ELSE IF c = "k" THEN "K" ELSE c

\* a non-empty string of digit letters
IsNumeral(s) == s # <<>> /\ \A i \in 1..Len(s) : IsDigitLetter(s[i])
HasInvalidChar(s) == \E i \in 1..Len(s) : ~IsDigitLetter(s[i])
FirstInvalidIndex(s) ==
  CHOOSE i \in 1..Len(s) :
    ~IsDigitLetter(s[i]) /\ \A j \in 1..(i - 1) : IsDigitLetter(s[j])

RECURSIVE Pow10(_)
Pow10(k) == IF k = 0 THEN 1 ELSE 10 * Pow10(k - 1)

\* the sum of digit * 10^(distance from the right end)
RECURSIVE PositionalSum(_, _)
PositionalSum(s, i) ==
  IF i > Len(s) THEN 0
  ELSE DigitOf(s[i]) * Pow10(Len(s) - i) + PositionalSum(s, i + 1)
PositionalValue(s) == PositionalSum(s, 1)

\* upper-cased, leading "A"s removed, "A" when nothing is left
RECURSIVE StripLeadingA(_)
StripLeadingA(s) ==
  IF s # <<>> /\ Head(s) \in {"A", "a"} THEN StripLeadingA(Tail(s)) ELSE s
Canonical(s) ==
  LET stripped == StripLeadingA(s)
  IN IF stripped = <<>> THEN <<"A">>
     ELSE [i \in 1..Len(stripped) |-> UpperOf(stripped[i])]

\* the message of the thrown invalid-digit Error names the character c
NamesDigit(message, c) ==
  message = <<"I","n","v","a","l","i","d"," ","Z","u","g","l","a","n","g"," ","d","i","g","i","t",":"," ">>
            \o <<c>> \o <<"."," ","M","u","s","t"," ","b","e"," ","A","-","J",".">>

DecoderCalled == call.fn = "zuglangToDecimal"
EncoderCalled == call.fn = "decimalToZuglang"
CalculateDone == call.fn = "calculateZuglang" /\ pc = "done"

(***************************************************************************)
(* C1 as stated: for every integer n in [-10000, 10000], negative n and 0  *)
(* included, decoding the encoder's output gives n back.                   *)
(***************************************************************************)
C1_RoundTripEveryInteger ==
  EncoderCalled => zuglangToDecimal(ret.value) = ReturnedNumber(call.decimalNum)

(***************************************************************************)
(* C1 amended: for every integer n in [0, 10000] decoding the encoder's    *)
(* output gives n back; for every negative n in [-10000, -1] the encoder's *)
(* output starts with "-", and the decoder rejects it with the             *)
(* invalid-digit error naming "-" instead of giving n back.                *)
(***************************************************************************)
C1_RoundTripNonNegative ==
  EncoderCalled =>
    LET decoded == zuglangToDecimal(ret.value)
    IN IF call.decimalNum >= 0
       THEN decoded = ReturnedNumber(call.decimalNum)
       ELSE /\ Head(ret.value) = "-"
            /\ decoded.kind = "throw"
            /\ NamesDigit(decoded.message, "-")

C1_Witness ==
  /\ EncoderCalled
  /\ call.decimalNum = 9037
  /\ ret = ReturnedString(<<"J","A","D","H">>)

(***************************************************************************)
(* C2: for every non-empty string s over A-J in either case, encoding the  *)
(* decoded value of s gives the canonical form of s: s upper-cased with    *)
(* its leading "A"s removed, and "A" when s consists of "A"s only.         *)
(***************************************************************************)
C2_EncodeDecodeCanonical ==
  (DecoderCalled /\ IsNumeral(call.zuglangNum)) =>
    /\ ret.kind = "return"
    /\ decimalToZuglang(ret.value) = Canonical(call.zuglangNum)

C2_Witness ==
  /\ DecoderCalled
  /\ call.zuglangNum = <<"a","c","A">>
  /\ ret = ReturnedNumber(20)
  /\ decimalToZuglang(ret.value) = <<"C","A">>

(***************************************************************************)
(* C3: for every non-empty string over A-J in either case the decoder      *)
(* returns the non-negative base-10 value of the letters read as digits    *)
(* A=0..J=9, most significant first; "A" gives 0, "BC" 12, "CF" 25, and a  *)
(* lower-case letter counts as its upper-case form.                        *)
(***************************************************************************)
C3_DecoderValue ==
  (DecoderCalled /\ IsNumeral(call.zuglangNum)) =>
    /\ ret = ReturnedNumber(PositionalValue(call.zuglangNum))
    /\ ret.value >= 0
    /\ (call.zuglangNum = <<"A">> => ret.value = 0)
    /\ (call.zuglangNum \in {<<"B","C">>, <<"b","c">>, <<"B","c">>} => ret.value = 12)
    /\ (call.zuglangNum \in {<<"C","F">>, <<"c","f">>, <<"c","F">>} => ret.value = 25)

C3_Witness ==
  /\ DecoderCalled
  /\ call.zuglangNum = <<"c","F","j">>
  /\ ret = ReturnedNumber(259)

(***************************************************************************)
(* C4: the decoder fails with the invalid-digit error exactly when its     *)
(* input has a character that is not one of A-J after upper-casing; the    *)
(* error names the leftmost such character, upper-cased, and no value is   *)
(* returned.                                                               *)
(***************************************************************************)
C4_InvalidDigit ==
  DecoderCalled =>
    /\ ret.kind = "throw" <=> HasInvalidChar(call.zuglangNum)
    /\ ret.kind # "throw" => ret.kind = "return"
    /\ ret.kind = "throw" =>
         /\ NamesDigit(ret.message,
                       UpperOf(call.zuglangNum[FirstInvalidIndex(call.zuglangNum)]))
         /\ "value" \notin DOMAIN ret

C4_Witness ==
  /\ DecoderCalled
  /\ call.zuglangNum = <<"B","k","-">>
  /\ ret.kind = "throw"
  /\ NamesDigit(ret.message, "K")

(***************************************************************************)
(* C5 as stated: an empty numeral-string is rejected as an error and never *)
(* decoded to 0, by the decoder called directly, by calculateZuglang and   *)
(* by the calculator and zuglang_number_to_decimal endpoints.              *)
(***************************************************************************)
IsErrorString(s) == Len(s) >= 6 /\ SubSeq(s, 1, 6) = <<"E","r","r","o","r",":">>
EmptyParam(q, name) == name \in DOMAIN q /\ q[name] = <<>>

C5_EmptyInputRejected ==
  /\ (DecoderCalled /\ call.zuglangNum = <<>>) => ret.kind = "throw"
  /\ (CalculateDone /\ (call.expression1 = <<>> \/ call.expression2 = <<>>)) =>
       IsErrorString(ret.value)
  /\ (/\ call.fn = "zuglang_calculator"
      /\ (EmptyParam(call.query, "expression1") \/ EmptyParam(call.query, "expression2")))
       => ret.value.status = 400
  /\ (call.fn = "zuglang_number_to_decimal" /\ EmptyParam(call.query, "expression"))
       => ret.value.status = 400

(***************************************************************************)
(* C6: for valid numeral-strings a, b and an operator in {+, -, *, /}      *)
(* (b not zero for "/"), calculateZuglang returns the summary              *)
(*   a op b = E (x op y = r in decimal)                                    *)
(* with a, b as given, x and y their decimal values, r the sum, the        *)
(* difference (possibly negative), the product or the floor quotient of x  *)
(* and y, and E the encoding of r; ("BC", "CF", "+") gives                 *)
(* "BC + CF = DH (12 + 25 = 37 in decimal)".                               *)
(***************************************************************************)
\* the floor of x / y for x >= 0, y > 0, by its defining inequalities
FloorQuotient(x, y) == CHOOSE q \in 0..x : q * y <= x /\ x < (q + 1) * y

ExpectedResult(x, operator, y) ==
  CASE operator = <<"+">> -> x + y
    [] operator = <<"-">> -> x - y
    [] operator = <<"*">> -> x * y
    [] operator = <<"/">> -> FloorQuotient(x, y)

ExpectedSummary(a, operator, b) ==
  LET x == PositionalValue(a)
      y == PositionalValue(b)
      r == ExpectedResult(x, operator, y)
  IN a \o <<" ">> \o operator \o <<" ">> \o b \o <<" ", "=", " ">>
     \o decimalToZuglang(r)
     \o <<" ", "(">> \o NumberToString(x) \o <<" ">> \o operator \o <<" ">>
     \o NumberToString(y) \o <<" ", "=", " ">> \o NumberToString(r)
     \o <<" ","i","n"," ","d","e","c","i","m","a","l",")">>

CalculationDefined ==
  /\ IsNumeral(call.expression1)
  /\ IsNumeral(call.expression2)
  /\ call.operator \in {<<"+">>, <<"-">>, <<"*">>, <<"/">>}
  /\ ~(call.operator = <<"/">> /\ PositionalValue(call.expression2) = 0)

C6_CalculateSummary ==
  /\ (CalculateDone /\ CalculationDefined) =>
       ret = ReturnedString(ExpectedSummary(call.expression1, call.operator,
                                            call.expression2))
  /\ (/\ CalculateDone
      /\ call.expression1 = <<"B","C">>
      /\ call.expression2 = <<"C","F">>
      /\ call.operator = <<"+">>) =>
       ret.value = <<"B","C"," ","+"," ","C","F"," ","="," ","D","H"," ","(","1","2"," ","+"," ","2","5"," ","="," ","3","7"," ","i","n"," ","d","e","c","i","m","a","l",")">>
  /\ (/\ CalculateDone
      /\ call.expression1 = <<"j">>
      /\ call.expression2 = <<"B","C">>
      /\ call.operator = <<"-">>) =>
       ret.value = <<"j"," ","-"," ","B","C"," ","="," ","-","D"," ","(","9"," ","-"," ","1","2"," ","="," ","-","3"," ","i","n"," ","d","e","c","i","m","a","l",")">>
  /\ (/\ CalculateDone
      /\ call.expression1 = <<"C","F">>
      /\ call.expression2 = <<"j">>
      /\ call.operator = <<"/">>) =>
       ret.value = <<"C","F"," ","/"," ","j"," ","="," ","C"," ","(","2","5"," ","/"," ","9"," ","="," ","2"," ","i","n"," ","d","e","c","i","m","a","l",")">>

C6_Witness ==
  /\ CalculateDone
  /\ call.expression1 = <<"B","C">>
  /\ call.expression2 = <<"C","F">>
  /\ call.operator = <<"+">>
  /\ StartsWith(ret.value, <<"B","C"," ","+"," ","C","F"," ","="," ","D","H"," ">>)

(***************************************************************************)
(* C7: for "/" with a valid first operand and a valid second operand whose *)
(* value is zero, calculateZuglang reports the division-by-zero failure:   *)
(* no summary, no zero or infinite result, and an outcome other than the   *)
(* invalid-digit and the invalid-operator outcomes.                        *)
(***************************************************************************)
\* every summary contains "=", no failure message does
HasEqualsSign(s) == \E i \in 1..Len(s) : s[i] = "="

InvalidDigitPrefix ==
  <<"E","r","r","o","r",":"," ","I","n","v","a","l","i","d"," ","Z","u","g","l","a","n","g"," ","d","i","g","i","t",":"," ">>
InvalidOperatorPrefix ==
  <<"E","r","r","o","r",":"," ","I","n","v","a","l","i","d"," ","o","p","e","r","a","t","o","r"," ">>

C7_DivisionByZero ==
  (/\ CalculateDone
   /\ call.operator = <<"/">>
   /\ IsNumeral(call.expression1)
   /\ IsNumeral(call.expression2)
   /\ PositionalValue(call.expression2) = 0) =>
    /\ ret.value = <<"E","r","r","o","r",":"," ","D","i","v","i","s","i","o","n"," ","b","y"," ","z","e","r","o">>
    /\ ~HasEqualsSign(ret.value)
    /\ ~StartsWith(ret.value, InvalidDigitPrefix)
    /\ ~StartsWith(ret.value, InvalidOperatorPrefix)

C7_Witness ==
  /\ CalculateDone
  /\ call.expression1 = <<"B","C">>
  /\ call.expression2 = <<"A","A">>
  /\ call.operator = <<"/">>
  /\ ret.value = ErrorDivisionByZero

(***************************************************************************)
(* C8: for an operator outside {+, -, *, /} and two valid numeral-strings, *)
(* calculateZuglang reports the invalid-operator failure, naming the       *)
(* operator, and returns no arithmetic result.                             *)
(***************************************************************************)
C8_InvalidOperator ==
  (/\ CalculateDone
   /\ IsNumeral(call.expression1)
   /\ IsNumeral(call.expression2)
   /\ call.operator \notin {<<"+">>, <<"-">>, <<"*">>, <<"/">>}) =>
    /\ ret.value = InvalidOperatorPrefix \o call.operator
    /\ ~HasEqualsSign(ret.value)

C8_Witness ==
  /\ CalculateDone
  /\ call.expression1 = <<"B","C">>
  /\ call.expression2 = <<"C","F">>
  /\ call.operator = <<"%">>
  /\ ret.value = ErrorInvalidOperator(<<"%">>)

(***************************************************************************)
(* C9: in calculateZuglang both operands are decoded before the operator   *)
(* is examined, and a decode failure is the overall outcome with nothing   *)
(* computed: with an invalid character in an operand the result is the     *)
(* invalid-digit failure, for the first operand's leftmost invalid         *)
(* character if it has one and else for the second's, whatever the         *)
(* operator and even when the division would be by zero.                   *)
(***************************************************************************)
InvalidDigitFailure(s) ==
  InvalidDigitPrefix \o <<UpperOf(s[FirstInvalidIndex(s)])>>
  \o <<"."," ","M","u","s","t"," ","b","e"," ","A","-","J",".">>

C9_DecodeBeforeOperator ==
  /\ pc = "switch" =>
       /\ num1.assigned /\ num2.assigned
       /\ ~HasInvalidChar(call.expression1) /\ ~HasInvalidChar(call.expression2)
       /\ ret = NoOutcome
  /\ (CalculateDone /\ HasInvalidChar(call.expression1)) =>
       /\ ret.value = InvalidDigitFailure(call.expression1)
       /\ ~num1.assigned /\ ~num2.assigned
  /\ (/\ CalculateDone
      /\ ~HasInvalidChar(call.expression1)
      /\ HasInvalidChar(call.expression2)) =>
       /\ ret.value = InvalidDigitFailure(call.expression2)
       /\ num1.assigned /\ ~num2.assigned

C9_Witness ==
  /\ CalculateDone
  /\ call.expression1 = <<"B">>
  /\ call.expression2 = <<"A","K">>
  /\ call.operator = <<"%">>
  /\ ret.value = CatchError(InvalidDigitMessage("K"))

(***************************************************************************)
(* C10 as stated: no failure of the core is thrown as a generic error, and *)
(* none is encoded as a string to be recognised by its "Error:" prefix.    *)
(***************************************************************************)
C10_TaggedOutcomes ==
  /\ DecoderCalled => ret.kind # "throw"
  /\ CalculateDone => ~IsErrorString(ret.value)

(***************************************************************************)
(* C10 amended: the failures the core detects (invalid digit, division by  *)
(* zero, invalid operator) are distinguishable from a success and from     *)
(* each other, but not as tagged outcomes: zuglangToDecimal throws an      *)
(* Error whose message names the digit, and calculateZuglang never throws  *)
(* and returns a string starting with "Error:" exactly when it fails --    *)
(* "Error: Invalid Zuglang digit: ..." for an invalid digit, else          *)
(* "Error: Invalid operator ..." for an operator outside the set, else     *)
(* "Error: Division by zero" -- which the zuglang_calculator handler       *)
(* recognises by that prefix; a summary never starts with "Error:".        *)
(***************************************************************************)
C10_ErrorStringOutcomes ==
  /\ DecoderCalled =>
       /\ ret.kind \in {"return", "throw"}
       /\ ret.kind = "throw" <=> HasInvalidChar(call.zuglangNum)
       /\ ret.kind = "throw" =>
            ret.message = InvalidDigitMessage(
              UpperOf(call.zuglangNum[FirstInvalidIndex(call.zuglangNum)]))
  /\ CalculateDone =>
       LET digit == HasInvalidChar(call.expression1) \/ HasInvalidChar(call.expression2)
           badOperator == ~digit /\ call.operator \notin {<<"+">>, <<"-">>, <<"*">>, <<"/">>}
           zeroDivisor == /\ ~digit
                          /\ call.operator = <<"/">>
                          /\ PositionalValue(call.expression2) = 0
       IN /\ ret.kind = "return" /\ ret.type = "string"
          /\ StartsWith(ret.value, InvalidDigitPrefix) <=> digit
          /\ StartsWith(ret.value, InvalidOperatorPrefix) <=> badOperator
          /\ ret.value = <<"E","r","r","o","r",":"," ","D","i","v","i","s","i","o","n"," ","b","y"," ","z","e","r","o">>
               <=> zeroDivisor
          /\ IsErrorString(ret.value) <=> (digit \/ badOperator \/ zeroDivisor)
          /\ ~IsErrorString(ret.value) => HasEqualsSign(ret.value)
  /\ (call.fn = "zuglang_calculator" /\ ret.value.status = 200) =>
       ~IsErrorString(ret.value.body.result)

C10_Witness ==
  /\ CalculateDone
  /\ call.expression1 = <<"j","K">>
  /\ call.expression2 = <<"A">>
  /\ call.operator = <<"/">>
  /\ ret = ReturnedString(InvalidDigitPrefix \o <<"K">>
                          \o <<"."," ","M","u","s","t"," ","b","e"," ","A","-","J",".">>)

(***************************************************************************)
(* C11: decimalToZuglang(0) is "A"; for n > 0 the output is a non-empty    *)
(* string over A-J whose first character is not "A"; for n < 0 it is "-"   *)
(* followed by decimalToZuglang(-n), -5 giving "-F".  A "-" appears in an  *)
(* output only as its first character and only for a negative input.       *)
(***************************************************************************)
IsUpperDigit(c) == \E d \in 1..10 : UpperDigits[d] = c

C11_EncoderShape ==
  EncoderCalled =>
    LET n == call.decimalNum
        out == ret.value
    IN /\ ret.kind = "return"
       /\ n = 0 => out = <<"A">>
       /\ n > 0 => /\ out # <<>>
                   /\ \A i \in 1..Len(out) : IsUpperDigit(out[i])
                   /\ out[1] # "A"
       /\ n < 0 => /\ Len(out) >= 2
                   /\ out[1] = "-"
                   /\ Tail(out) = decimalToZuglang(-n)
                   /\ \A i \in 2..Len(out) : IsUpperDigit(out[i])
                   /\ out[2] # "A"
       /\ \A i \in 1..Len(out) : out[i] = "-" => (i = 1 /\ n < 0)
       /\ n = -5 => out = <<"-", "F">>

C11_Witness ==
  /\ EncoderCalled
  /\ call.decimalNum = -5
  /\ ret = ReturnedString(<<"-", "F">>)

(***************************************************************************)
(* C13: the zuglang_calculator endpoint (lines 550-608) answers 200        *)
(* exactly when expression1 and expression2 are non-empty valid            *)
(* numeral-strings, the operator (trimmed, "%2B" read as "+") is one of    *)
(* + - * /, and the operation is not a division by a zero-valued operand;  *)
(* otherwise it answers 400, never 500, and a 200 body never holds an      *)
(* "Error:" text.  The checks come in the order: missing parameters,       *)
(* operator validity, calculation.                                         *)
(***************************************************************************)
\* a parameter that is present and not empty
Given(q, name) == name \in DOMAIN q /\ q[name] # <<>>

\* s without its leading and trailing spaces
WithoutOuterSpaces(s) ==
  IF \A i \in 1..Len(s) : s[i] = " " THEN <<>>
  ELSE LET first == CHOOSE i \in 1..Len(s) :
                      s[i] # " " /\ \A j \in 1..(i - 1) : s[j] = " "
           last == CHOOSE i \in 1..Len(s) :
                     s[i] # " " /\ \A j \in (i + 1)..Len(s) : s[j] = " "
       IN SubSeq(s, first, last)

OperatorAsRead(q) ==
  LET trimmed == IF "operator" \in DOMAIN q
                 THEN WithoutOuterSpaces(q["operator"]) ELSE <<>>
  IN IF trimmed = <<"%", "2", "B">> THEN <<"+">> ELSE trimmed

MissingParameters(q) ==
  ~Given(q, "expression1") \/ ~Given(q, "expression2") \/ OperatorAsRead(q) = <<>>
BadOperator(q) ==
  ~MissingParameters(q) /\ OperatorAsRead(q) \notin {<<"+">>, <<"-">>, <<"*">>, <<"/">>}
BadDigit(q) ==
  /\ ~MissingParameters(q) /\ ~BadOperator(q)
  /\ HasInvalidChar(q["expression1"]) \/ HasInvalidChar(q["expression2"])
ZeroDivisor(q) ==
  /\ ~MissingParameters(q) /\ ~BadOperator(q) /\ ~BadDigit(q)
  /\ OperatorAsRead(q) = <<"/">>
  /\ PositionalValue(q["expression2"]) = 0

C13_CalculatorStatus ==
  call.fn = "zuglang_calculator" =>
    LET q == call.query
        response == ret.value
    IN /\ response.status \in {200, 400}
       /\ response.status = 200 <=>
            ~(MissingParameters(q) \/ BadOperator(q) \/ BadDigit(q) \/ ZeroDivisor(q))
       /\ response.status = 200 =>
            /\ ~IsErrorString(response.body.result)
            /\ response.body.result =
                 ExpectedSummary(q["expression1"], OperatorAsRead(q), q["expression2"])
       /\ MissingParameters(q) =>
            response.body.error = <<"M","i","s","s","i","n","g"," ","r","e","q","u","i","r","e","d"," ","p","a","r","a","m","e","t","e","r","s",":"," ","e","x","p","r","e","s","s","i","o","n","1",","," ","e","x","p","r","e","s","s","i","o","n","2",","," ","o","p","e","r","a","t","o","r">>
       /\ BadOperator(q) =>
            response.body.error = <<"I","n","v","a","l","i","d"," ","o","p","e","r","a","t","o","r","."," ","M","u","s","t"," ","b","e"," ","o","n","e"," ","o","f",":"," ","+",","," ","-",","," ","*",","," ","/">>
       /\ BadDigit(q) =>
            response.body.error =
              InvalidDigitFailure(IF HasInvalidChar(q["expression1"])
                                  THEN q["expression1"] ELSE q["expression2"])
       /\ ZeroDivisor(q) =>
            response.body.error = <<"E","r","r","o","r",":"," ","D","i","v","i","s","i","o","n"," ","b","y"," ","z","e","r","o">>

C13_Witness ==
  /\ call.fn = "zuglang_calculator"
  /\ call.query = [expression1 |-> <<"B","C">>, expression2 |-> <<"C","F">>,
                   operator |-> <<"%","2","B">>]
  /\ ret.value.status = 200
  /\ ret.value.body.operator = <<"+">>
  /\ StartsWith(ret.value.body.result,
                <<"B","C"," ","+"," ","C","F"," ","="," ","D","H"," ">>)

(***************************************************************************)
(* C14 as stated: the decimal_to_zuglang_number endpoint answers 200 only  *)
(* when the expression is a valid decimal integer (an optional sign        *)
(* followed solely by decimal digits), and then zuglang_result is the      *)
(* encoding of exactly that integer; every other expression ("12abc",      *)
(* "3.7", "abc", empty) is answered with 400.                              *)
(***************************************************************************)
Unsigned(s) == IF s # <<>> /\ Head(s) \in {"+", "-"} THEN Tail(s) ELSE s
IsDecimalInteger(s) ==
  /\ Unsigned(s) # <<>>
  /\ \A i \in 1..Len(Unsigned(s)) : \E d \in 1..10 : DecimalDigits[d] = Unsigned(s)[i]

RECURSIVE DecimalSum(_, _)
DecimalSum(s, i) ==
  IF i > Len(s) THEN 0
  ELSE ((CHOOSE d \in 1..10 : DecimalDigits[d] = s[i]) - 1) * Pow10(Len(s) - i)
       + DecimalSum(s, i + 1)
IntegerValue(s) ==
  IF Head(s) = "-" THEN 0 - DecimalSum(Unsigned(s), 1) ELSE DecimalSum(Unsigned(s), 1)

C14_OnlyValidIntegers ==
  call.fn = "decimal_to_zuglang_number" =>
    LET q == call.query
        response == ret.value
        valid == Given(q, "expression") /\ IsDecimalInteger(q["expression"])
    IN /\ response.status = 200 =>
            /\ valid
            /\ response.body.zuglang_result =
                 decimalToZuglang(IntegerValue(q["expression"]))
       /\ ~valid => response.status = 400

(***************************************************************************)
(* C12: invocations are independent.  Under every interleaving of the      *)
(* concurrent decode, encode and calculate calls, each call returns the    *)
(* result it returns when run alone on the same arguments, what a call     *)
(* reads is what it wrote itself, and a step of one call leaves every      *)
(* other call's arguments, storage and outcome as they were.               *)
(***************************************************************************)
ResultAlone(c) ==
  CASE c.fn = "zuglangToDecimal" -> zuglangToDecimal(c.zuglangNum)
    [] c.fn = "decimalToZuglang" -> ReturnedString(decimalToZuglang(c.decimalNum))
    [] c.fn = "calculateZuglang" ->
         ReturnedString(calculateZuglang(c.expression1, c.expression2, c.operator))

ReturnsAsAlone ==
  \A p \in Procs :
    /\ pc[p] = "done" => ret[p] = ResultAlone(call[p])
    /\ pc[p] \in {"decode2", "switch"} =>
         num1[p] = Assigned(zuglangToDecimal(call[p].expression1).value)
    /\ pc[p] = "switch" =>
         num2[p] = Assigned(zuglangToDecimal(call[p].expression2).value)

OthersUntouched ==
  \A p \in Procs :
    (pc'[p] = pc[p]) =>
      /\ call'[p] = call[p]
      /\ num1'[p] = num1[p]
      /\ num2'[p] = num2[p]
      /\ ret'[p] = ret[p]

C12_IndependentCalls == []ReturnsAsAlone /\ [][OthersUntouched]_vars

C12_Witness ==
  /\ pc[1] = "done"
  /\ call[1] = [fn |-> "calculateZuglang", expression1 |-> <<"C","F">>,
                expression2 |-> <<"j">>, operator |-> <<"-">>]
  /\ StartsWith(ret[1].value, <<"C","F"," ","-"," ","j"," ","="," ","B","G"," ">>)
  /\ pc[2] = "switch"
  /\ call[2].expression1 = <<"j">>
  /\ call[2].expression2 = <<"C","F">>
  /\ num1[2] = Assigned(9)

====
